---- MODULE Spec2Model ----
(***************************************************************************)
(* The speech-output hook of the translation agent (agent.py):             *)
(* AITranslatorAssistant.say, the two text functions it calls              *)
(* (is_chinese_text, clean_llm_output) and on_enter.                       *)
(*                                                                         *)
(* A Python str is a sequence of Unicode code points (naturals); None is   *)
(* the one-element sequence NoneValue, which holds no code point.          *)
(***************************************************************************)
EXTENDS Integers, Sequences, FiniteSets, TLC

\* ------------------------------------------------------------ bounds

\* Pieces concatenated into a generated message.
MaxFrags == 3
\* Invocations of say in flight in ConcSpec.
MaxCalls == 2

\* --------------------------------------------------- values and text

\* Python's None (not a str: its one element is no code point).
NoneValue == <<-1>>
\* A local that is not bound yet.
Unset == <<-2>>

\* "<think>" and "</think>", the literals of the pattern at line 36.
ThinkOpen == <<60, 116, 104, 105, 110, 107, 62>>
ThinkClose == <<60, 47, 116, 104, 105, 110, 107, 62>>

\* "I apologize but I need to translate that to English" (line 94).
Override ==
  <<73, 32, 97, 112, 111, 108, 111, 103, 105, 122, 101, 32, 98, 117, 116,
    32, 73, 32, 110, 101, 101, 100, 32, 116, 111, 32, 116, 114, 97, 110,
    115, 108, 97, 116, 101, 32, 116, 104, 97, 116, 32, 116, 111, 32, 69,
    110, 103, 108, 105, 115, 104>>

\* "Sorry I could not translate that" (line 101).
Fallback ==
  <<83, 111, 114, 114, 121, 32, 73, 32, 99, 111, 117, 108, 100, 32, 110,
    111, 116, 32, 116, 114, 97, 110, 115, 108, 97, 116, 101, 32, 116, 104,
    97, 116>>

\* The welcome message of on_enter (line 112): "Hello I am your Chinese to
\* English translation assistant Please speak in Chinese and I will
\* translate it to English for you".
Welcome ==
  <<72, 101, 108, 108, 111, 32, 73, 32, 97, 109, 32, 121, 111, 117, 114, 32,
    67, 104, 105, 110, 101, 115, 101, 32, 116, 111, 32, 69, 110, 103, 108,
    105, 115, 104, 32, 116, 114, 97, 110, 115, 108, 97, 116, 105, 111, 110,
    32, 97, 115, 115, 105, 115, 116, 97, 110, 116, 32, 80, 108, 101, 97,
    115, 101, 32, 115, 112, 101, 97, 107, 32, 105, 110, 32, 67, 104, 105,
    110, 101, 115, 101, 32, 97, 110, 100, 32, 73, 32, 119, 105, 108, 108,
    32, 116, 114, 97, 110, 115, 108, 97, 116, 101, 32, 105, 116, 32, 116,
    111, 32, 69, 110, 103, 108, 105, 115, 104, 32, 102, 111, 114, 32, 121,
    111, 117>>

\* ------------------------------------------- character classes (re, str)

\* str.isspace / the class \s of a str pattern, on code points below U+3100.
IsSpace(ch) ==
  \/ ch \in 9..13
  \/ ch \in 28..32
  \/ ch \in {133, 160, 5760, 8232, 8233, 8239, 8287, 12288}
  \/ ch \in 8192..8202

\* str.isalnum on the code points the messages are built from: ASCII digits
\* and letters, U+0130, U+0131, U+212A (KELVIN SIGN), the CJK Unified
\* Ideographs U+4E00..U+9FFF and U+A000 (YI SYLLABLE IT).
IsAlnum(ch) ==
  \/ ch \in 48..57
  \/ ch \in 65..90
  \/ ch \in 97..122
  \/ ch \in {304, 305, 8490}
  \/ ch \in 19968..40960

\* The class \w of a str pattern: alphanumerics and the underscore.
IsWord(ch) == IsAlnum(ch) \/ ch = 95

\* The class [^\w\s] of line 39.
IsPunct(ch) == ~IsWord(ch) /\ ~IsSpace(ch)

\* re.IGNORECASE: the lower-case letter a text character matches. Besides
\* A-Z, U+0130 and U+0131 match i and U+212A matches k.
Lower(ch) ==
  IF ch \in 65..90 THEN ch + 32
  ELSE IF ch \in {304, 305} THEN 105
  ELSE IF ch = 8490 THEN 107
  ELSE ch

\* Python truthiness of a str-or-None value: `not text`.
NotTruthy(text) == text = NoneValue \/ text = <<>>

\* ------------------------------------------------ clean_llm_output

\* The pattern literal pat matches text at position i, ignoring case.
\* Mutant: the flag re.IGNORECASE is missing.
MatchesAt_CaseSensitive(text, i, pat) ==
  /\ i + Len(pat) - 1 <= Len(text)
  /\ \A k \in 1..Len(pat) : text[i + k - 1] = pat[k]

MatchesAt(text, i, pat) ==
  /\ i + Len(pat) - 1 <= Len(text)
  /\ \A k \in 1..Len(pat) : Lower(text[i + k - 1]) = pat[k]

\* The least element of a non-empty set of positions.
Min(S) == CHOOSE j \in S : \A k \in S : j <= k

\* The lazy `.*?</think>` with DOTALL: the first closing tag at or after
\* position from, 0 when there is none.
FirstCloseFrom(text, from) ==
  LET S == {j \in from..Len(text) : MatchesAt(text, j, ThinkClose)}
  IN IF S = {} THEN 0 ELSE Min(S)

\* The leftmost match of the pattern at or after position i: the first
\* opening tag that has a closing tag after it, 0 when there is none.
FirstMatchFrom(text, i) ==
  LET S == {p \in i..Len(text) :
              /\ MatchesAt(text, p, ThinkOpen)
              /\ FirstCloseFrom(text, p + Len(ThinkOpen)) # 0}
  IN IF S = {} THEN 0 ELSE Min(S)

\* re.sub(r'<think>.*?</think>', '', text, DOTALL | IGNORECASE), scanning
\* from position i: each leftmost match is dropped and the scan goes on
\* behind it.
RECURSIVE SubThinkFrom(_, _)
SubThinkFrom(text, i) ==
  LET p == FirstMatchFrom(text, i)
  IN IF p = 0 THEN SubSeq(text, i, Len(text))
     ELSE SubSeq(text, i, p - 1)
            \o SubThinkFrom(text, FirstCloseFrom(text, p + Len(ThinkOpen))
                                    + Len(ThinkClose))

SubThink(text) == SubThinkFrom(text, 1)

\* re.sub(r'[^\w\s]', '', text)
SubPunct(text) == SelectSeq(text, LAMBDA ch : ~IsPunct(ch))

\* str.split(): the maximal runs of non-whitespace, in order, read from
\* position i on.
RECURSIVE SplitFrom(_, _)
SplitFrom(text, i) ==
  LET starts == {p \in i..Len(text) : ~IsSpace(text[p])}
  IN IF starts = {} THEN <<>>
     ELSE LET first == Min(starts)
              stops == {p \in first..Len(text) : IsSpace(text[p])}
              last == IF stops = {} THEN Len(text) ELSE Min(stops) - 1
          IN <<SubSeq(text, first, last)>> \o SplitFrom(text, last + 1)

\* Mutant: text.split(' '), which splits at the space only.
Split_SpaceOnly(text) ==
  LET RECURSIVE from(_)
      from(i) ==
        LET starts == {p \in i..Len(text) : text[p] # 32}
        IN IF starts = {} THEN <<>>
           ELSE LET first == Min(starts)
                    stops == {p \in first..Len(text) : text[p] = 32}
                    last == IF stops = {} THEN Len(text) ELSE Min(stops) - 1
                IN <<SubSeq(text, first, last)>> \o from(last + 1)
  IN from(1)

Split(text) == SplitFrom(text, 1)

\* Mutant: ''.join(words), the separator is missing.
Join_NoSeparator(words) ==
  LET RECURSIVE cat(_)
      cat(ws) == IF ws = <<>> THEN <<>> ELSE ws[1] \o cat(Tail(ws))
  IN cat(words)

\* ' '.join(words)
RECURSIVE Join(_)
Join(words) ==
  IF words = <<>> THEN <<>>
  ELSE IF Len(words) = 1 THEN words[1]
  ELSE words[1] \o <<32>> \o Join(Tail(words))

\* str.strip()
RECURSIVE LStrip(_)
LStrip(text) ==
  IF text # <<>> /\ IsSpace(text[1]) THEN LStrip(Tail(text)) ELSE text

RECURSIVE RStrip(_)
RStrip(text) ==
  IF text # <<>> /\ IsSpace(text[Len(text)])
  THEN RStrip(SubSeq(text, 1, Len(text) - 1))
  ELSE text

Strip(text) == RStrip(LStrip(text))

\* Mutant: the punctuation is removed after the whitespace is normalised.
clean_llm_output_PunctLast(text) ==
  IF NotTruthy(text) THEN <<>>
  ELSE Strip(SubPunct(Join(Split(SubThink(text)))))

\* clean_llm_output (lines 27-44).
clean_llm_output(text) ==
  IF NotTruthy(text) THEN <<>>
  ELSE Strip(Join(Split(SubPunct(SubThink(text)))))

\* ------------------------------------------------- is_chinese_text

\* chinese_pattern (line 51): one character of [\u4e00-\u9fff].
InChineseRange(ch) == ch >= 19968 /\ ch <= 40959

\* chinese_pattern.search(text) raises TypeError when text is not a str.
SearchRaises(text) == text = NoneValue

\* Mutant: chinese_pattern.fullmatch, every character is in the range.
is_chinese_text_FullMatch(text) ==
  text # <<>> /\ \A i \in 1..Len(text) : InChineseRange(text[i])

\* is_chinese_text (lines 47-52), for a str.
is_chinese_text(text) == \E i \in 1..Len(text) : InChineseRange(text[i])

\* Mutant: the empty result is not replaced.
sanitize_NoFallback(text) == clean_llm_output(text)

\* Mutant: the empty result is replaced by the response of line 94.
sanitize_WrongDefault(text) ==
  LET cleaned == clean_llm_output(text)
  IN IF NotTruthy(cleaned) THEN Override ELSE cleaned

\* sanitize: the else branch of say (lines 97-102), clean_llm_output and
\* the substitution of the default response for an empty result.
sanitize(text) ==
  LET cleaned == clean_llm_output(text)
  IN IF NotTruthy(cleaned) THEN Fallback ELSE cleaned

\* The log records say emits on its way to line 108 (lines 88-105).
LogRecords(c, text) ==
  IF is_chinese_text(text)
  THEN <<[call |-> c, level |-> "info"], [call |-> c, level |-> "error"],
         [call |-> c, level |-> "info"]>>
  ELSE IF NotTruthy(clean_llm_output(text))
  THEN <<[call |-> c, level |-> "info"], [call |-> c, level |-> "warning"],
         [call |-> c, level |-> "info"]>>
  ELSE <<[call |-> c, level |-> "info"], [call |-> c, level |-> "info"]>>

\* ------------------------------------------------------------ inputs

\* The pieces generated messages are made of: "<think>", "</think>",
\* "<THINK>", "</Think>", "<thi", "nk>", "a", " ", "\n", ",", "_" and
\* U+4E2D.
Fragments ==
  << ThinkOpen, ThinkClose,
     <<60, 84, 72, 73, 78, 75, 62>>, <<60, 47, 84, 104, 105, 110, 107, 62>>,
     <<60, 116, 104, 105>>, <<110, 107, 62>>,
     <<97>>, <<32>>, <<10>>, <<44>>, <<95>>, <<20013>> >>

RECURSIVE Concat(_)
Concat(pieces) ==
  IF pieces = <<>> THEN <<>> ELSE pieces[1] \o Concat(Tail(pieces))

Generated ==
  { Concat([i \in 1..Len(f) |-> Fragments[f[i]]]) :
      f \in UNION {[1..n -> 1..Len(Fragments)] : n \in 0..MaxFrags} }

\* Fixed messages: the examples of the testable properties and texts that
\* put a tag pair inside surrounding text, split a tag around a tag pair,
\* use the code points next to the range of chinese_pattern, and use
\* whitespace other than the space.
Examples ==
  { \* "<think>reasoning here</think>Hello world"
    <<60, 116, 104, 105, 110, 107, 62, 114, 101, 97, 115, 111, 110, 105,
      110, 103, 32, 104, 101, 114, 101, 60, 47, 116, 104, 105, 110, 107, 62,
      72, 101, 108, 108, 111, 32, 119, 111, 114, 108, 100>>,
    \* "Hello, world!!"
    <<72, 101, 108, 108, 111, 44, 32, 119, 111, 114, 108, 100, 33, 33>>,
    \* "Hello    world  "
    <<72, 101, 108, 108, 111, 32, 32, 32, 32, 119, 111, 114, 108, 100, 32,
      32>>,
    \* U+4F60 U+597D
    <<20320, 22909>>,
    \* "Hello"
    <<72, 101, 108, 108, 111>>,
    \* U+4F60 U+597D " Hello"
    <<20320, 22909, 32, 72, 101, 108, 108, 111>>,
    \* "Hi <THINK>a\nb</Think> there"
    <<72, 105, 32, 60, 84, 72, 73, 78, 75, 62, 97, 10, 98, 60, 47, 84, 104,
      105, 110, 107, 62, 32, 116, 104, 101, 114, 101>>,
    \* "<thi<think>x</think>nk>a</think>b"
    <<60, 116, 104, 105, 60, 116, 104, 105, 110, 107, 62, 120, 60, 47, 116,
      104, 105, 110, 107, 62, 110, 107, 62, 97, 60, 47, 116, 104, 105, 110,
      107, 62, 98>>,
    \* "a , b"
    <<97, 32, 44, 32, 98>>,
    \* U+4DFF U+A000, the neighbours of the range
    <<19967, 40960>>,
    \* U+4E00 and U+9FFF, the ends of the range
    <<19968>>, <<40959>>,
    \* "<thin" U+212A ">x</think>ok"
    <<60, 116, 104, 105, 110, 8490, 62, 120, 60, 47, 116, 104, 105, 110,
      107, 62, 111, 107>>,
    \* " \t\n"
    <<32, 9, 10>> }

\* What say may be called with (message: str, line 85); None is what an
\* untyped caller can pass.
Strings == Generated \cup Examples
Messages == Strings \cup {NoneValue}

\* The messages of the concurrent turns of ConcSpec: "Hello, world!!",
\* U+4F60 U+597D " Hello", "<think>x</think>ok" and "".
TurnMessages ==
  { <<72, 101, 108, 108, 111, 44, 32, 119, 111, 114, 108, 100, 33, 33>>,
    <<20320, 22909, 32, 72, 101, 108, 108, 111>>,
    <<60, 116, 104, 105, 110, 107, 62, 120, 60, 47, 116, 104, 105, 110, 107,
      62, 111, 107>>,
    <<>> }

\* **kwargs: the delivery options of a call, a set of <<name, value>>.
Kwargs == { {}, {<<"allow_interruptions", FALSE>>} }

Calls == 1..MaxCalls

\* ------------------------------------------------------------- state

VARIABLES
  pc,               \* pc[c]: where invocation c of say is
  message,          \* message[c]: the parameter message of invocation c
  kwargs,           \* kwargs[c]: the parameter kwargs of invocation c
  cleaned_message,  \* cleaned_message[c]: the local of invocation c
  tts,              \* the calls of Agent.say (line 108), in order
  log               \* the records handed to logger, in order

vars == <<pc, message, kwargs, cleaned_message, tts, log>>

Init ==
  /\ pc = [c \in Calls |-> "idle"]
  /\ message = [c \in Calls |-> Unset]
  /\ kwargs = [c \in Calls |-> {}]
  /\ cleaned_message = [c \in Calls |-> Unset]
  /\ tts = <<>>
  /\ log = <<>>

\* Mutant: **kwargs is not passed on.
SuperSayArgs_NoKwargs(c, text, kw) == [call |-> c, text |-> text, kwargs |-> {}]

\* The arguments of super().say at line 108.
SuperSayArgs(c, text, kw) == [call |-> c, text |-> text, kwargs |-> kw]

\* say (lines 85-108) up to its await: invocation c is called with message
\* m and delivery options k. The TypeError of chinese_pattern.search(None)
\* leaves say at line 91, after the log record of line 88.
say(c, m, k) ==
  /\ pc[c] = "idle"
  /\ message' = [message EXCEPT ![c] = m]
  /\ kwargs' = [kwargs EXCEPT ![c] = k]
  /\ IF SearchRaises(m)
     THEN /\ pc' = [pc EXCEPT ![c] = "raised"]
          /\ log' = Append(log, [call |-> c, level |-> "info"])
          /\ UNCHANGED <<cleaned_message, tts>>
     ELSE LET cleaned == IF is_chinese_text(m) THEN Override ELSE sanitize(m)
          IN /\ cleaned_message' = [cleaned_message EXCEPT ![c] = cleaned]
             /\ log' = log \o LogRecords(c, m)
             /\ tts' = Append(tts, SuperSayArgs(c, cleaned, k))
             /\ pc' = [pc EXCEPT ![c] = "await"]

\* on_enter (lines 110-112): say with the welcome message and no options.
on_enter(c) == say(c, Welcome, {})

\* The awaited Agent.say returns and say returns None.
super_say_returns(c) ==
  /\ pc[c] = "await"
  /\ pc' = [pc EXCEPT ![c] = "done"]
  /\ UNCHANGED <<message, kwargs, cleaned_message, tts, log>>

\* The platform (or any caller) invokes say on the agent: invocation c
\* starts with a message of ms and some delivery options.
Invoke(c, ms) ==
  /\ pc[c] = "idle"
  /\ \E m \in ms, k \in Kwargs : say(c, m, k)

\* One invocation, called with any message.
Next ==
  \/ Invoke(1, Messages)
  \/ on_enter(1)
  \/ super_say_returns(1)

Spec == Init /\ [][Next]_vars

\* Up to MaxCalls invocations in flight, each called with a str.
ConcNext ==
  \/ \E c \in Calls : Invoke(c, TurnMessages)
  \/ \E c \in Calls : on_enter(c)
  \/ \E c \in Calls : super_say_returns(c)

ConcSpec == Init /\ [][ConcNext]_vars

\* ------------------------------------------------------------ claims

\* Invocation c has reached line 108.
Spoke(c) == pc[c] \in {"await", "done"}

\* The calls of Agent.say made by invocation c, and the text of the first.
SaidBy(c) == {i \in 1..Len(tts) : tts[i].call = c}
TextOf(c) == tts[Min(SaidBy(c))].text

\* The levels of the log records of invocation c, in order.
LevelsOf(c) ==
  LET mine == SelectSeq(log, LAMBDA r : r.call = c)
  IN [i \in 1..Len(mine) |-> mine[i].level]

\* The message of invocation c is a str.
CalledWithStr(c) == pc[c] # "idle" /\ message[c] # NoneValue

\* text holds a character of U+4E00..U+9FFF.
HasSourceScript(text) == \E i \in 1..Len(text) : text[i] \in 19968..40959

\* C1: whatever str say is called with (empty, whitespace only, punctuation
\* only, only a <think> block, anything else), say reaches the parent say
\* and the text it hands over has at least one character.
C1_NeverEmpty ==
  /\ \A c \in Calls :
       CalledWithStr(c) =>
         Spoke(c) /\ SaidBy(c) # {} /\ Len(TextOf(c)) >= 1
  /\ \A i \in 1..Len(tts) : Len(tts[i].text) >= 1

\* C1 witness: a message that is only a <think> block was spoken as the
\* default response.
C1_Witness ==
  /\ Spoke(1)
  /\ message[1] = ThinkOpen \o <<97>> \o ThinkClose
  /\ TextOf(1) = Fallback

\* C2: a message with at least one character of U+4E00..U+9FFF, alone or
\* mixed with other text, markup or punctuation, is spoken as exactly the
\* override string, through the branch of lines 92-94 (its error record)
\* and not through clean_llm_output (no record of the empty-result branch).
C2_SourceScriptOverride ==
  \A c \in Calls :
    (CalledWithStr(c) /\ HasSourceScript(message[c])) =>
      /\ Spoke(c)
      /\ SaidBy(c) # {}
      /\ TextOf(c) = Override
      /\ cleaned_message[c] = Override
      /\ LevelsOf(c) = <<"info", "error", "info">>

\* C2 witness: U+4F60 U+597D " Hello", a mixed message, was spoken as the
\* override string.
C2_Witness ==
  /\ Spoke(1)
  /\ message[1] = <<20320, 22909, 32, 72, 101, 108, 108, 111>>
  /\ TextOf(1) = Override

\* C3: no input makes say raise: every invocation, the one with None
\* included, reaches the parent say with a non-empty str.
C3_NoErrorRaised ==
  \A c \in Calls :
    pc[c] # "idle" =>
      /\ pc[c] # "raised"
      /\ SaidBy(c) # {}
      /\ Len(TextOf(c)) >= 1

\* C5: every character of a spoken text is alphanumeric or whitespace.
C5_NoPunctuation ==
  \A i \in 1..Len(tts) :
    \A j \in 1..Len(tts[i].text) :
      IsAlnum(tts[i].text[j]) \/ IsSpace(tts[i].text[j])

\* Steps 2-4 of sanitize: tags, punctuation, whitespace.
Steps2to4(text) == Strip(Join(Split(SubPunct(SubThink(text)))))

\* C7: sanitize("") and sanitize(None) are the default response, and every
\* message without source script whose text is empty after steps 2-4 is
\* spoken as the default response.
C7_EmptyFallsBack ==
  /\ sanitize(<<>>) = Fallback
  /\ sanitize(NoneValue) = Fallback
  /\ \A c \in Calls :
       (Spoke(c) /\ ~HasSourceScript(message[c])
          /\ Steps2to4(message[c]) = <<>>) =>
         TextOf(c) = Fallback

\* C7 witness: the empty message was spoken as the default response.
C7_Witness ==
  /\ pc[1] = "done"
  /\ message[1] = <<>>
  /\ TextOf(1) = Fallback
  /\ LevelsOf(1) = <<"info", "warning", "info">>

\* C9: a spoken text has no whitespace at its ends, no whitespace character
\* but the space, and no two spaces in a row.
C9_WhitespaceNormalized ==
  \A i \in 1..Len(tts) :
    LET t == tts[i].text
    IN /\ t # <<>> => ~IsSpace(t[1]) /\ ~IsSpace(t[Len(t)])
       /\ \A j \in 1..Len(t) : IsSpace(t[j]) => t[j] = 32
       /\ \A j \in 1..(Len(t) - 1) : ~(t[j] = 32 /\ t[j + 1] = 32)

\* C9 witness: "Hello    world  " was spoken as "Hello world".
C9_Witness ==
  /\ Spoke(1)
  /\ message[1] = <<72, 101, 108, 108, 111, 32, 32, 32, 32, 119, 111, 114,
                    108, 100, 32, 32>>
  /\ TextOf(1) = <<72, 101, 108, 108, 111, 32, 119, 111, 114, 108, 100>>

\* C4: sanitize is idempotent. For every message say was called with,
\* sanitize(sanitize(x)) = sanitize(x); and a text spoken through the else
\* branch, the default response included, is left as it is by sanitize.
C4_Idempotent ==
  \A c \in Calls :
    pc[c] # "idle" =>
      /\ sanitize(sanitize(message[c])) = sanitize(message[c])
      /\ (Spoke(c) /\ ~HasSourceScript(message[c])) =>
           sanitize(TextOf(c)) = TextOf(c)

\* C4 witness: in "<thi<think>x</think>nk>a</think>b" the removal of the
\* tag pair joins "<thi" and "nk>" into a new opening tag; it was spoken as
\* "thinkathinkb".
C4_Witness ==
  /\ Spoke(1)
  /\ message[1] =
       <<60, 116, 104, 105, 60, 116, 104, 105, 110, 107, 62, 120, 60, 47,
         116, 104, 105, 110, 107, 62, 110, 107, 62, 97, 60, 47, 116, 104,
         105, 110, 107, 62, 98>>
  /\ TextOf(1) = <<116, 104, 105, 110, 107, 97, 116, 104, 105, 110, 107, 98>>

\* The tag literal is at position i of text, in any letter case (A-Z, a-z).
TagAt(text, i, tag) ==
  /\ i + Len(tag) - 1 <= Len(text)
  /\ \A k \in 1..Len(tag) :
       LET ch == text[i + k - 1]
       IN (IF ch \in 65..90 THEN ch + 32 ELSE ch) = tag[k]

\* text holds no '<' and no '>'.
NoAngle(text) == \A k \in 1..Len(text) : text[k] \notin {60, 62}

\* text = p + open + b + close + s with the opening tag at i and the closing
\* tag at j, b without a closing tag, p and s without '<' and '>'.
IsTagged(text, i, j) ==
  /\ TagAt(text, i, ThinkOpen)
  /\ j >= i + Len(ThinkOpen)
  /\ TagAt(text, j, ThinkClose)
  /\ \A k \in (i + Len(ThinkOpen))..(j - 1) : ~TagAt(text, k, ThinkClose)
  /\ NoAngle(SubSeq(text, 1, i - 1))
  /\ NoAngle(SubSeq(text, j + Len(ThinkClose), Len(text)))

\* C6: for a message p + open + b + close + s (tags in any letter case, b
\* possibly with line breaks and without a closing tag, p and s without
\* '<' and '>'), sanitize gives what it gives for p + s, and that is what is
\* spoken when the message has no source script;
\* "<think>reasoning here</think>Hello world" is spoken as "Hello world".
C6_TagPairRemoved ==
  \A c \in Calls :
    CalledWithStr(c) =>
      LET m == message[c]
      IN /\ \A i \in 1..Len(m), j \in 1..Len(m) :
              IsTagged(m, i, j) =>
                LET ps == SubSeq(m, 1, i - 1)
                            \o SubSeq(m, j + Len(ThinkClose), Len(m))
                IN /\ sanitize(m) = sanitize(ps)
                   /\ ~HasSourceScript(m) => TextOf(c) = sanitize(ps)
         /\ m = <<60, 116, 104, 105, 110, 107, 62, 114, 101, 97, 115, 111,
                  110, 105, 110, 103, 32, 104, 101, 114, 101, 60, 47, 116,
                  104, 105, 110, 107, 62, 72, 101, 108, 108, 111, 32, 119,
                  111, 114, 108, 100>>
              => TextOf(c) = <<72, 101, 108, 108, 111, 32, 119, 111, 114,
                               108, 100>>

\* C6 witness: "Hi <THINK>a\nb</Think> there", upper-case tags around a
\* line break inside text, was spoken as "Hi there".
C6_Witness ==
  /\ Spoke(1)
  /\ message[1] =
       <<72, 105, 32, 60, 84, 72, 73, 78, 75, 62, 97, 10, 98, 60, 47, 84,
         104, 105, 110, 107, 62, 32, 116, 104, 101, 114, 101>>
  /\ IsTagged(message[1], 4, 14)
  /\ TextOf(1) = <<72, 105, 32, 116, 104, 101, 114, 101>>

\* text with the whitespace at its two ends cut off.
Trimmed(text) ==
  LET solid == {k \in 1..Len(text) : ~IsSpace(text[k])}
  IN IF solid = {} THEN <<>>
     ELSE SubSeq(text, Min(solid), CHOOSE k \in solid : \A l \in solid : l <= k)

\* text has no markup and no punctuation (every character is alphanumeric
\* or whitespace) and single-spaced words (inside Trimmed(text) the only
\* whitespace is the space, never two in a row).
IsPlain(text) ==
  /\ \A k \in 1..Len(text) : IsAlnum(text[k]) \/ IsSpace(text[k])
  /\ LET t == Trimmed(text)
     IN /\ \A k \in 1..Len(t) : IsSpace(t[k]) => t[k] = 32
        /\ \A k \in 1..(Len(t) - 1) : ~(t[k] = 32 /\ t[k + 1] = 32)

\* C8 as stated: sanitize returns every plain message trimmed and unchanged,
\* and the welcome message of on_enter is spoken character for character.
C8_RoundTrip_AsStated ==
  \A c \in Calls :
    CalledWithStr(c) =>
      /\ IsPlain(message[c]) => sanitize(message[c]) = Trimmed(message[c])
      /\ message[c] = Welcome => TextOf(c) = Welcome

\* C8 amended: sanitize returns every plain message that has at least one
\* word trimmed and unchanged, which is also what is spoken when it has no
\* source script; the welcome message of on_enter is spoken character for
\* character.
C8_RoundTrip ==
  \A c \in Calls :
    CalledWithStr(c) =>
      /\ (IsPlain(message[c]) /\ Trimmed(message[c]) # <<>>) =>
           /\ sanitize(message[c]) = Trimmed(message[c])
           /\ ~HasSourceScript(message[c]) => TextOf(c) = Trimmed(message[c])
      /\ message[c] = Welcome => TextOf(c) = Welcome

\* C8 witness: on_enter has run and the welcome message was spoken as it is.
C8_Witness ==
  /\ pc[1] = "done"
  /\ message[1] = Welcome
  /\ IsPlain(Welcome)
  /\ TextOf(1) = Welcome

\* C10: with invocations interleaved at their await, every invocation that
\* reached line 108 has made exactly one call of the parent say, none before;
\* its text is the override or sanitized form of its own message, held in
\* its own local, and its options are the ones it was called with.
C10_IndependentCalls ==
  /\ \A c \in Calls :
       /\ pc[c] = "idle" => SaidBy(c) = {}
       /\ pc[c] # "idle" =>
            /\ Spoke(c)
            /\ Cardinality(SaidBy(c)) = 1
            /\ TextOf(c) = IF HasSourceScript(message[c])
                           THEN Override ELSE sanitize(message[c])
            /\ cleaned_message[c] = TextOf(c)
            /\ tts[Min(SaidBy(c))].kwargs = kwargs[c]
  /\ Len(tts) = Cardinality({c \in Calls : pc[c] # "idle"})

\* C10 witness: two invocations with different messages and options are
\* both suspended at their await, the second having spoken first.
C10_Witness ==
  /\ pc[1] = "await" /\ pc[2] = "await"
  /\ message[1] # message[2]
  /\ kwargs[1] = {<<"allow_interruptions", FALSE>>} /\ kwargs[2] = {}
  /\ tts[1].call = 2 /\ tts[2].call = 1
  /\ tts[1].text = Override /\ tts[2].text = Fallback

====
